---- MODULE Spec2Model ----
(***************************************************************************)
(* A model of cmd/ssegen (main.go): the command-line generator that reads  *)
(* components.x-sse-events from an OpenAPI YAML file, normalizes the event  *)
(* names with strcase.ToCamel / strcase.ToLowerCamel, sorts them and       *)
(* renders a Go or TypeScript enum through an embedded template.           *)
(*                                                                         *)
(* Strings are sequences of byte values, so that strings.Compare and the   *)
(* byte loop of strcase are computed as the program computes them.         *)
(***************************************************************************)
EXTENDS Integers, Sequences, FiniteSets, TLC

(***************************************************************************)
(* Bounds of the explored inputs.                                          *)
(***************************************************************************)
\* longest string handed to the two strcase conversions in SpecNorm
MaxStrLen == 5
\* longest mapping key of the x-sse-events mappings drawn in SpecEvents
MaxKeyLen == 1
\* largest number of entries of the x-sse-events mappings drawn in SpecEvents
MaxEntries == 2

(***************************************************************************)
(* Bytes and string literals.                                              *)
(***************************************************************************)
\* the printable ASCII characters, in code order starting at 32 (space); the
\* double quote, the backslash and the backtick are spelled by name
AsciiPrintable ==
  << " ", "!", "dquote", "#", "$", "%", "&", "'", "(", ")", "*", "+", ",", "-", ".", "/",
     "0", "1", "2", "3", "4", "5", "6", "7", "8", "9", ":", ";", "<", "=", ">", "?",
     "@", "A", "B", "C", "D", "E", "F", "G", "H", "I", "J", "K", "L", "M", "N", "O",
     "P", "Q", "R", "S", "T", "U", "V", "W", "X", "Y", "Z", "[", "backslash", "]", "^", "_",
     "backtick", "a", "b", "c", "d", "e", "f", "g", "h", "i", "j", "k", "l", "m", "n", "o",
     "p", "q", "r", "s", "t", "u", "v", "w", "x", "y", "z", "{", "|", "}", "~" >>

\* the byte value of a one-character string
Ord(c) == 31 + CHOOSE i \in 1..Len(AsciiPrintable) : AsciiPrintable[i] = c

\* the byte string spelled by a sequence of one-character strings
Bytes(cs) == [i \in 1..Len(cs) |-> Ord(cs[i])]

IsCap(v) == v >= 65 /\ v <= 90      \* v >= 'A' && v <= 'Z'
IsLow(v) == v >= 97 /\ v <= 122     \* v >= 'a' && v <= 'z'
IsNum(v) == v >= 48 /\ v <= 57      \* v >= '0' && v <= '9'
\* v == '_' || v == ' ' || v == '-' || v == '.'
IsSeparator(v) == v \in {95, 32, 45, 46}
\* the ASCII white space strings.TrimSpace removes
IsSpace(v) == v \in {9, 10, 11, 12, 13, 32}

RECURSIVE TrimLeft(_)
TrimLeft(s) ==
  IF s # << >> /\ IsSpace(Head(s)) THEN TrimLeft(Tail(s)) ELSE s

RECURSIVE TrimRight(_)
TrimRight(s) ==
  IF s # << >> /\ IsSpace(s[Len(s)]) THEN TrimRight(SubSeq(s, 1, Len(s) - 1)) ELSE s

\* strings.TrimSpace
TrimSpace(s) == TrimRight(TrimLeft(s))

\* strings.Compare: byte-wise lexicographic three-way comparison
RECURSIVE Compare(_, _)
Compare(a, b) ==
  IF a = << >> /\ b = << >> THEN 0
  ELSE IF a = << >> THEN -1
  ELSE IF b = << >> THEN 1
  ELSE IF Head(a) < Head(b) THEN -1
  ELSE IF Head(a) > Head(b) THEN 1
  ELSE Compare(Tail(a), Tail(b))

(***************************************************************************)
(* strcase (github.com/iancoleman/strcase v0.3.0, camel.go), as called by  *)
(* getEvents.  The package's acronym table holds the one entry "ID"->"id". *)
(***************************************************************************)
HasAcronym(s) == s = Bytes(<< "I", "D" >>)
AcronymOf(s) == IF HasAcronym(s) THEN Bytes(<< "i", "d" >>) ELSE s

\* CamelLoop lowering every capital that is not at a word start, whatever
\* precedes it (the prevIsCap test lost)
RECURSIVE CamelLoopLowersCapitals(_, _, _, _, _, _)
CamelLoopLowersCapitals(s, i, capNext, prevIsCap, hasAcronym, n) ==
  IF i >= Len(s) THEN n
  ELSE
    LET v0 == s[i + 1]
        vIsCap == IsCap(v0)
        vIsLow == IsLow(v0)
        v == IF capNext THEN (IF vIsLow THEN v0 - 32 ELSE v0)
             ELSE IF i = 0 THEN (IF vIsCap THEN v0 + 32 ELSE v0)
             ELSE IF vIsCap /\ ~hasAcronym THEN v0 + 32
             ELSE v0
    IN IF vIsCap \/ vIsLow
         THEN CamelLoopLowersCapitals(s, i + 1, FALSE, vIsCap, hasAcronym, Append(n, v))
       ELSE IF IsNum(v)
         THEN CamelLoopLowersCapitals(s, i + 1, TRUE, vIsCap, hasAcronym, Append(n, v))
       ELSE CamelLoopLowersCapitals(s, i + 1, IsSeparator(v), vIsCap, hasAcronym, n)

\* the byte loop of toCamelInitCase: i is the 0-based index of the next byte,
\* n the output built so far
RECURSIVE CamelLoop(_, _, _, _, _, _)
CamelLoop(s, i, capNext, prevIsCap, hasAcronym, n) ==
  IF i >= Len(s) THEN n
  ELSE
    LET v0 == s[i + 1]
        vIsCap == IsCap(v0)
        vIsLow == IsLow(v0)
        v == IF capNext THEN (IF vIsLow THEN v0 - 32 ELSE v0)
             ELSE IF i = 0 THEN (IF vIsCap THEN v0 + 32 ELSE v0)
             ELSE IF prevIsCap /\ vIsCap /\ ~hasAcronym THEN v0 + 32
             ELSE v0
    IN IF vIsCap \/ vIsLow
         THEN CamelLoop(s, i + 1, FALSE, vIsCap, hasAcronym, Append(n, v))
       ELSE IF IsNum(v)
         THEN CamelLoop(s, i + 1, TRUE, vIsCap, hasAcronym, Append(n, v))
       ELSE CamelLoop(s, i + 1, IsSeparator(v), vIsCap, hasAcronym, n)

toCamelInitCase(s, initCase) ==
  LET t == TrimSpace(s)
  IN IF t = << >> THEN t
     ELSE CamelLoop(AcronymOf(t), 0, initCase, FALSE, HasAcronym(t), << >>)

\* strcase.ToCamel: the capitalized word-boundary form
ToCamel(s) == toCamelInitCase(s, TRUE)

\* strcase.ToLowerCamel: the lowercase-leading word-boundary form
ToLowerCamel(s) == toCamelInitCase(s, FALSE)

(***************************************************************************)
(* getEvents: the range loop over spec.Components.SSEEvents and the sort.  *)
(* An SSEEvent is [Key, Event, Description, Deprecated]; a mapping is a    *)
(* function from key strings to the SSEEvent values yaml.Unmarshal read.   *)
(***************************************************************************)
\* the loop body without the assignment to event.Key: the value's own key
\* field survives
NormalizeEventKeepsKeyField(key, event) ==
  [event EXCEPT !.Event = ToLowerCamel(event.Event)]

\* one iteration's body: event.Key and event.Event are overwritten, the
\* other fields of the map value are kept
NormalizeEvent(key, event) ==
  [event EXCEPT !.Key = ToCamel(key), !.Event = ToLowerCamel(event.Event)]

\* the loop, visiting the keys in the order the map iteration yields them
RECURSIVE AppendEvents(_, _)
AppendEvents(m, order) ==
  IF order = << >> THEN << >>
  ELSE << NormalizeEvent(Head(order), m[Head(order)]) >> \o AppendEvents(m, Tail(order))

\* the comparison handed to slices.SortFunc
CompareKeys(a, b) == Compare(a.Key, b.Key)

\* one step of the insertion sort slices.SortFunc runs on a slice of at most
\* twelve elements: e moves left while it compares less than its predecessor
RECURSIVE InsertSorted(_, _)
InsertSorted(sorted, e) ==
  IF sorted = << >> \/ CompareKeys(e, sorted[Len(sorted)]) >= 0
    THEN Append(sorted, e)
    ELSE Append(InsertSorted(SubSeq(sorted, 1, Len(sorted) - 1), e), sorted[Len(sorted)])

RECURSIVE SortFuncFrom(_, _)
SortFuncFrom(sorted, rest) ==
  IF rest = << >> THEN sorted
  ELSE SortFuncFrom(InsertSorted(sorted, Head(rest)), Tail(rest))

\* getEvents without the sort: the list in map iteration order
SortFuncSkipped(evs) == evs

\* slices.SortFunc(events, CompareKeys)
SortFunc(evs) == SortFuncFrom(<< >>, evs)

\* lines 112-123: the list getEvents returns for mapping m visited in order
EventList(m, order) == SortFunc(AppendEvents(m, order))

\* every order in which a range loop may visit the keys of a map
RECURSIVE Orders(_)
Orders(keys) ==
  IF keys = {} THEN { << >> }
  ELSE UNION { { << k >> \o o : o \in Orders(keys \ {k}) } : k \in keys }

(***************************************************************************)
(* The state of one invocation of the program.                             *)
(***************************************************************************)
VARIABLES
  pc,          \* where the run is: the next call main makes, or "exited"
  argv,        \* the command line: the values of -i, -o, -lang, and how flag.Parse takes it
  inputFile,   \* the file named by -i, as os.ReadFile and yaml.Unmarshal find it
  config,      \* the Config parseFlags returned
  visited,     \* the order in which the range loop of getEvents visited the map
  events,      \* the list getEvents returned
  rendered,    \* the text the template execution wrote to the strings.Builder
  generated,   \* the bytes generateCode returned
  formatCalls, \* how many times format.Source was called
  ioLog,       \* the file operations attempted so far, in order
  outFile,     \* the destination file
  err,         \* the error generateSSEEvents returns ("" is nil)
  stages,      \* the stages run so far, each with whether it succeeded
  stdout,      \* what was printed to standard output
  stderr,      \* what was printed to standard error
  exitCode,    \* the process's exit status; NotExited while it runs
  norm         \* SpecNorm only: a string and what the strcase conversions made of it

vars == << pc, argv, inputFile, config, visited, events, rendered, generated, formatCalls,
           ioLog, outFile, err, stages, stdout, stderr, exitCode, norm >>

Go == "go"   \* const Go
TS == "ts"   \* const TS

NotExited == 0 - 1

\* the zero Config, before parseFlags has returned
NoConfig == [Input |-> "", Output |-> "", TypeName |-> "", Package |-> "", Lang |-> ""]

\* no text: an empty strings.Builder, a nil byte slice
NoText == [template |-> "", Package |-> "", TypeName |-> "", Events |-> << >>,
           validGo |-> FALSE, layout |-> ""]

NoNorm == [in |-> << >>, done |-> {}, key |-> << >>, wire |-> << >>,
           key2 |-> << >>, wire2 |-> << >>]

UsageMsg == [kind |-> "Usage", cause |-> ""]
FlagErrorMsg == [kind |-> "flag", cause |-> "flag provided but not defined"]

(***************************************************************************)
(* Inputs.                                                                 *)
(***************************************************************************)
\* command lines: each required flag given or not, -lang also with a value
\* that is neither go nor ts; flag.Parse accepts the line ("ok"), meets
\* -h/-help ("help"), or meets an undefined flag or a flag without its
\* value ("error").  -type and -package keep their defaults.
Argvs == [i : {"", "api.yaml"}, o : {"", "gen/events.out"},
          lang : {"", Go, TS, "py"}, parse : {"ok", "help", "error"}]

\* an SSEEvent as yaml.Unmarshal fills it from a mapping value
Event(key, event, description, deprecated) ==
  [Key |-> key, Event |-> event, Description |-> description, Deprecated |-> deprecated]

message_start == Bytes(<< "m", "e", "s", "s", "a", "g", "e", "_", "s", "t", "a", "r", "t" >>)
message_end == Bytes(<< "m", "e", "s", "s", "a", "g", "e", "_", "e", "n", "d" >>)

\* {message_start: {event: message_start, description: start},
\*  message_end: {event: message_end, deprecated: true}}
ExampleMapping ==
  (message_start :> Event(<< >>, message_start, "start", FALSE)) @@
  (message_end :> Event(<< >>, message_end, "", TRUE))

\* {message_start: {...}, message-start: {...}}: two keys of one name in two
\* separator conventions
SeparatorMapping ==
  (message_start :> Event(<< >>, message_start, "snake", FALSE)) @@
  (Bytes(<< "m", "e", "s", "s", "a", "g", "e", "-", "s", "t", "a", "r", "t" >>)
     :> Event(<< >>, message_start, "kebab", FALSE))

EmptyMapping == [k \in {} |-> Event(<< >>, << >>, "", FALSE)]

File(readable, yamlOK, hasSection, section) ==
  [readable |-> readable, yamlOK |-> yamlOK, hasSection |-> hasSection, section |-> section]

\* the input files of the whole-run specification
PipelineFiles ==
  { File(FALSE, FALSE, FALSE, EmptyMapping),     \* unreadable
    File(TRUE, FALSE, FALSE, EmptyMapping),      \* not YAML
    File(TRUE, TRUE, FALSE, EmptyMapping),       \* no components.x-sse-events
    File(TRUE, TRUE, TRUE, EmptyMapping),        \* x-sse-events: {}
    File(TRUE, TRUE, TRUE, ExampleMapping),
    File(TRUE, TRUE, TRUE, SeparatorMapping) }

\* all byte strings over alphabet of length at most n
RECURSIVE StringsUpTo(_, _)
StringsUpTo(alphabet, n) ==
  IF n = 0 THEN { << >> }
  ELSE LET shorter == StringsUpTo(alphabet, n - 1)
       IN shorter \cup { Append(t, c) : t \in shorter, c \in alphabet }

\* mapping keys: a letter in both cases, a second letter, a separator
KeyAlphabet == { Ord("a"), Ord("A"), Ord("b"), Ord("_") }
Keys == StringsUpTo(KeyAlphabet, MaxKeyLen)

\* mapping values: with and without a key field of their own, a description,
\* the deprecated flag; event names with a leading and an inner separator
Values ==
  { Event(<< >>, Bytes(<< "a", "_", "b" >>), "", FALSE),
    Event(Bytes(<< "z" >>), Bytes(<< "_", "a" >>), "start", TRUE) }

\* the subsets of S of at most n elements
RECURSIVE SubsetsUpTo(_, _)
SubsetsUpTo(S, n) ==
  IF n = 0 THEN { {} }
  ELSE LET smaller == SubsetsUpTo(S, n - 1)
       IN smaller \cup { T \cup {x} : T \in smaller, x \in S }

KeySets == SubsetsUpTo(Keys, MaxEntries)
Mappings == UNION { [K -> Values] : K \in KeySets }

\* the input files of SpecEvents: readable YAML with an x-sse-events section
EventFiles ==
  { File(TRUE, TRUE, TRUE, m) : m \in Mappings \cup {ExampleMapping, SeparatorMapping} }

\* the strings of SpecNorm: two lowercase letters, an uppercase letter, a
\* separator, a digit
NormAlphabet == { Ord("a"), Ord("b"), Ord("B"), Ord("_"), Ord("1") }
NormStrings == StringsUpTo(NormAlphabet, MaxStrLen)

(***************************************************************************)
(* parseFlags (lines 68-99), called by main (line 58).                     *)
(***************************************************************************)
\* what flag.Parse (line 86) does with the command line under the default
\* flag.ExitOnError: NotExited when it returns, else the status it exits with after
\* printing the usage
FlagParseExit(a) ==
  IF a.parse = "help" THEN 0
  ELSE IF a.parse = "error" THEN 2
  ELSE NotExited

\* parseFlags without the second check (lines 93-96): any -lang passes
FlagsRejectedLangUnchecked(c) == c.Input = "" \/ c.Output = "" \/ c.Lang = ""

\* lines 88-96: the two checks that end in flag.Usage() and os.Exit(1)
RequiredFlagMissing(c) == c.Input = "" \/ c.Output = "" \/ c.Lang = ""

UnknownLang(c) == c.Lang # Go /\ c.Lang # TS

FlagsRejected(c) == RequiredFlagMissing(c) \/ UnknownLang(c)

\* the Config the flag variables hold once flag.Parse has returned
ConfigOf(a) ==
  [Input |-> a.i, Output |-> a.o, TypeName |-> "SSEEvent", Package |-> "events",
   Lang |-> a.lang]

ParseFlags ==
  /\ pc = "parseFlags"
  /\ LET c == ConfigOf(argv)
         flagExit == FlagParseExit(argv)
     IN IF flagExit # NotExited
          THEN /\ stderr' = stderr \o (IF argv.parse = "error" THEN << FlagErrorMsg >> ELSE << >>)
                                   \o << UsageMsg >>
               /\ exitCode' = flagExit
               /\ pc' = "exited"
               /\ stages' = Append(stages, [stage |-> "parseFlags", ok |-> FALSE])
               /\ UNCHANGED config
        ELSE IF FlagsRejected(c)
          THEN /\ stderr' = Append(stderr, UsageMsg)
               /\ exitCode' = 1
               /\ pc' = "exited"
               /\ stages' = Append(stages, [stage |-> "parseFlags", ok |-> FALSE])
               /\ UNCHANGED config
        ELSE /\ config' = c
             /\ pc' = "getEvents"
             /\ stages' = Append(stages, [stage |-> "parseFlags", ok |-> TRUE])
             /\ UNCHANGED << stderr, exitCode >>
  /\ UNCHANGED << argv, inputFile, visited, events, rendered, generated, formatCalls, ioLog,
                  outFile, err, stdout, norm >>

(***************************************************************************)
(* getEvents (lines 101-124), called by generateSSEEvents (lines 127-130). *)
(***************************************************************************)
\* getEvents treating an absent x-sse-events section as an error
GetEventsResultSectionRequired(file, order) ==
  IF ~file.readable
    THEN [events |-> << >>, err |-> "error getting events: error reading file"]
  ELSE IF ~file.yamlOK
    THEN [events |-> << >>, err |-> "error getting events: error parsing YAML"]
  ELSE IF ~file.hasSection
    THEN [events |-> << >>, err |-> "error getting events: no x-sse-events"]
  ELSE [events |-> EventList(file.section, order), err |-> ""]

\* what getEvents returns for the file, the map visited in the given order
GetEventsResult(file, order) ==
  IF ~file.readable
    THEN [events |-> << >>, err |-> "error getting events: error reading file"]
  ELSE IF ~file.yamlOK
    THEN [events |-> << >>, err |-> "error getting events: error parsing YAML"]
  ELSE [events |-> EventList(file.section, order), err |-> ""]

\* the keys the range loop visits: none when the section is absent (a nil map)
RangeKeys(file) ==
  IF file.readable /\ file.yamlOK /\ file.hasSection THEN DOMAIN file.section ELSE {}

\* line 128: where generateSSEEvents goes after getEvents
AfterGetEvents(e) == IF e # "" THEN "report" ELSE "generateCode"

GetEvents ==
  /\ pc = "getEvents"
  /\ \E order \in Orders(RangeKeys(inputFile)) :
       LET r == GetEventsResult(inputFile, order)
       IN /\ visited' = order
          /\ events' = r.events
          /\ err' = r.err
          /\ pc' = AfterGetEvents(r.err)
          /\ stages' = Append(stages, [stage |-> "getEvents", ok |-> r.err = ""])
  /\ ioLog' = Append(ioLog, "ReadFile")
  /\ UNCHANGED << argv, inputFile, config, rendered, generated, formatCalls, outFile,
                  stdout, stderr, exitCode, norm >>

(***************************************************************************)
(* generateCode (lines 154-195), called by generateSSEEvents (132-141).    *)
(* The templates are files outside main.go: whether one is found, parses,  *)
(* executes, and whether its output is Go that gofmt accepts, is the       *)
(* environment's choice.                                                   *)
(***************************************************************************)
TemplateOutcomes == [read : BOOLEAN, parse : BOOLEAN, exec : BOOLEAN, validGo : BOOLEAN]

\* tmpl.Execute(&generated, tmplData): the text a template makes of the data
Execute(name, tmplData, tpl) ==
  [template |-> name, Package |-> tmplData.Package, TypeName |-> tmplData.TypeName,
   Events |-> tmplData.Events, validGo |-> tpl.validGo, layout |-> "as rendered"]

\* format.Source: the canonical layout of a valid source text, an error otherwise
FormatSource(text) ==
  IF text.validGo THEN [out |-> [text EXCEPT !.layout = "gofmt"], err |-> ""]
  ELSE [out |-> NoText, err |-> "error generating code: format.Source"]

\* lines 159-171 and 176-188: read, parse and execute the template
RenderTemplate(name, tmplData, tpl) ==
  IF ~tpl.read THEN [text |-> NoText, err |-> "error generating code: error reading template"]
  ELSE IF ~tpl.parse THEN [text |-> NoText, err |-> "error generating code: error parsing template"]
  ELSE IF ~tpl.exec THEN [text |-> NoText, err |-> "error generating code: error executing template"]
  ELSE [text |-> Execute(name, tmplData, tpl), err |-> ""]

\* case Go (lines 158-173)
GoCase(tmplData, tpl) ==
  LET r == RenderTemplate("go.tmpl", tmplData, tpl)
  IN IF r.err # ""
       THEN [bytes |-> NoText, err |-> r.err, rendered |-> r.text, formatted |-> 0]
       ELSE [bytes |-> FormatSource(r.text).out, err |-> FormatSource(r.text).err,
             rendered |-> r.text, formatted |-> 1]

\* case TS ending like case Go, in format.Source
TSCaseFormatted(tmplData, tpl) ==
  LET r == RenderTemplate("ts.tmpl", tmplData, tpl)
  IN IF r.err # ""
       THEN [bytes |-> NoText, err |-> r.err, rendered |-> r.text, formatted |-> 0]
       ELSE [bytes |-> FormatSource(r.text).out, err |-> FormatSource(r.text).err,
             rendered |-> r.text, formatted |-> 1]

\* case TS (lines 175-190)
TSCase(tmplData, tpl) ==
  LET r == RenderTemplate("ts.tmpl", tmplData, tpl)
  IN [bytes |-> r.text, err |-> r.err, rendered |-> r.text, formatted |-> 0]

GenerateCodeResult(tmplData, cfg, tpl) ==
  CASE cfg.Lang = Go -> GoCase(tmplData, tpl)
    [] cfg.Lang = TS -> TSCase(tmplData, tpl)
    [] OTHER -> [bytes |-> NoText, err |-> "error generating code: unsupported language",
                 rendered |-> NoText, formatted |-> 0]

\* lines 132-136
TemplateData(cfg, evs) ==
  [Package |-> cfg.Package, TypeName |-> cfg.TypeName, Events |-> evs]

\* generateSSEEvents going on to the write whatever generateCode returned
AfterGenerateCodeErrorIgnored(e) == "mkdirAll"

\* line 139: where generateSSEEvents goes after generateCode
AfterGenerateCode(e) == IF e # "" THEN "report" ELSE "mkdirAll"

GenerateCode ==
  /\ pc = "generateCode"
  /\ \E tpl \in TemplateOutcomes :
       LET r == GenerateCodeResult(TemplateData(config, events), config, tpl)
       IN /\ rendered' = r.rendered
          /\ generated' = r.bytes
          /\ formatCalls' = formatCalls + r.formatted
          /\ err' = r.err
          /\ pc' = AfterGenerateCode(r.err)
          /\ stages' = Append(stages, [stage |-> "generateCode", ok |-> r.err = ""])
  /\ UNCHANGED << argv, inputFile, config, visited, events, ioLog, outFile, stdout, stderr,
                  exitCode, norm >>

(***************************************************************************)
(* The directory creation and the write (lines 143-151).                   *)
(***************************************************************************)
NoFile == [state |-> "untouched", content |-> NoText]

\* line 143
MkdirAll ==
  /\ pc = "mkdirAll"
  /\ ioLog' = Append(ioLog, "MkdirAll")
  /\ \E ok \in BOOLEAN :
       /\ err' = IF ok THEN "" ELSE "error creating directory"
       /\ pc' = IF ok THEN "writeFile" ELSE "report"
       /\ stages' = Append(stages, [stage |-> "mkdirAll", ok |-> ok])
  /\ UNCHANGED << argv, inputFile, config, visited, events, rendered, generated, formatCalls,
                  outFile, stdout, stderr, exitCode, norm >>

\* what os.WriteFile leaves of the file: all the data; nothing, when the file
\* cannot be opened; a truncated file, when the write after the open fails
WriteOutcome(data, how) ==
  CASE how = "written" -> [state |-> "written", content |-> data]
    [] how = "open failed" -> NoFile
    [] OTHER -> [state |-> "truncated", content |-> NoText]

\* line 147
WriteFile ==
  /\ pc = "writeFile"
  /\ ioLog' = Append(ioLog, "WriteFile")
  /\ \E how \in {"written", "open failed", "write failed"} :
       /\ outFile' = WriteOutcome(generated, how)
       /\ err' = IF how = "written" THEN "" ELSE "error writing file"
       /\ stages' = Append(stages, [stage |-> "writeFile", ok |-> how = "written"])
  /\ pc' = "report"
  /\ UNCHANGED << argv, inputFile, config, visited, events, rendered, generated, formatCalls,
                  stdout, stderr, exitCode, norm >>

(***************************************************************************)
(* main (lines 60-65): report the outcome of generateSSEEvents.            *)
(***************************************************************************)
SuccessMsg(cfg) ==
  [kind |-> "Successfully generated", lang |-> cfg.Lang, output |-> cfg.Output]

\* main without the os.Exit(1) of line 62
ExitStatusAlwaysZero(e) == 0

\* line 62 after an error, the return from main otherwise
ExitStatus(e) == IF e # "" THEN 1 ELSE 0

Report ==
  /\ pc = "report"
  /\ IF err # ""
       THEN /\ stderr' = Append(stderr, [kind |-> "Error", cause |-> err])
            /\ UNCHANGED stdout
       ELSE /\ stdout' = Append(stdout, SuccessMsg(config))
            /\ UNCHANGED stderr
  /\ exitCode' = ExitStatus(err)
  /\ pc' = "exited"
  /\ UNCHANGED << argv, inputFile, config, visited, events, rendered, generated, formatCalls,
                  ioLog, outFile, err, stages, norm >>

(***************************************************************************)
(* The whole run.                                                          *)
(***************************************************************************)
Blank ==
  /\ config = NoConfig
  /\ visited = << >>
  /\ events = << >>
  /\ rendered = NoText
  /\ generated = NoText
  /\ formatCalls = 0
  /\ ioLog = << >>
  /\ outFile = NoFile
  /\ err = ""
  /\ stdout = << >>
  /\ stderr = << >>
  /\ exitCode = NotExited

Init ==
  /\ pc = "parseFlags"
  /\ argv \in Argvs
  /\ inputFile \in PipelineFiles
  /\ stages = << >>
  /\ norm = NoNorm
  /\ Blank

Next == ParseFlags \/ GetEvents \/ GenerateCode \/ MkdirAll \/ WriteFile \/ Report

Spec == Init /\ [][Next]_vars

(***************************************************************************)
(* getEvents alone, on every small mapping: the run has returned from      *)
(* parseFlags with a valid Config and is about to call getEvents.          *)
(***************************************************************************)
InitEvents ==
  /\ pc = "getEvents"
  /\ argv = [i |-> "api.yaml", o |-> "gen/events.out", lang |-> Go, parse |-> "ok"]
  /\ inputFile \in EventFiles
  /\ stages = << [stage |-> "parseFlags", ok |-> TRUE] >>
  /\ norm = NoNorm
  /\ config = ConfigOf(argv)
  /\ visited = << >>
  /\ events = << >>
  /\ rendered = NoText
  /\ generated = NoText
  /\ formatCalls = 0
  /\ ioLog = << >>
  /\ outFile = NoFile
  /\ err = ""
  /\ stdout = << >>
  /\ stderr = << >>
  /\ exitCode = NotExited

NextEvents == GetEvents

SpecEvents == InitEvents /\ [][NextEvents]_vars

(***************************************************************************)
(* The two strcase conversions alone, as pure functions of a string:       *)
(* applied once (lines 114 and 115), and applied again to their own result.*)
(***************************************************************************)
NormalizeKey ==
  /\ pc = "norm"
  /\ "key" \notin norm.done
  /\ norm' = [norm EXCEPT !.key = ToCamel(norm.in), !.done = @ \cup {"key"}]
  /\ UNCHANGED << pc, argv, inputFile, config, visited, events, rendered, generated, formatCalls,
                  ioLog, outFile, err, stages, stdout, stderr, exitCode >>

NormalizeWire ==
  /\ pc = "norm"
  /\ "wire" \notin norm.done
  /\ norm' = [norm EXCEPT !.wire = ToLowerCamel(norm.in), !.done = @ \cup {"wire"}]
  /\ UNCHANGED << pc, argv, inputFile, config, visited, events, rendered, generated, formatCalls,
                  ioLog, outFile, err, stages, stdout, stderr, exitCode >>

RenormalizeKey ==
  /\ pc = "norm"
  /\ "key" \in norm.done
  /\ "key2" \notin norm.done
  /\ norm' = [norm EXCEPT !.key2 = ToCamel(norm.key), !.done = @ \cup {"key2"}]
  /\ UNCHANGED << pc, argv, inputFile, config, visited, events, rendered, generated, formatCalls,
                  ioLog, outFile, err, stages, stdout, stderr, exitCode >>

RenormalizeWire ==
  /\ pc = "norm"
  /\ "wire" \in norm.done
  /\ "wire2" \notin norm.done
  /\ norm' = [norm EXCEPT !.wire2 = ToLowerCamel(norm.wire), !.done = @ \cup {"wire2"}]
  /\ UNCHANGED << pc, argv, inputFile, config, visited, events, rendered, generated, formatCalls,
                  ioLog, outFile, err, stages, stdout, stderr, exitCode >>

InitNorm ==
  /\ pc = "norm"
  /\ argv = [i |-> "", o |-> "", lang |-> "", parse |-> "ok"]
  /\ inputFile = File(FALSE, FALSE, FALSE, EmptyMapping)
  /\ stages = << >>
  /\ norm \in { [NoNorm EXCEPT !.in = s] : s \in NormStrings }
  /\ Blank

NextNorm == NormalizeKey \/ NormalizeWire \/ RenormalizeKey \/ RenormalizeWire

SpecNorm == InitNorm /\ [][NextNorm]_vars

(***************************************************************************)
(* Properties.                                                             *)
(***************************************************************************)
Ran(stage) == \E i \in DOMAIN stages : stages[i].stage = stage
StageOK(stage) == \E i \in DOMAIN stages : stages[i].stage = stage /\ stages[i].ok
StageFailed(stage) == \E i \in DOMAIN stages : stages[i].stage = stage /\ ~stages[i].ok
Attempted(op) == \E i \in DOMAIN ioLog : ioLog[i] = op
Printed(stream, msg) == \E i \in DOMAIN stream : stream[i] = msg

\* the stages of a run, in the order main and generateSSEEvents call them
StageOrder == << "parseFlags", "getEvents", "generateCode", "mkdirAll", "writeFile" >>
AllStagesOK == Len(stages) = Len(StageOrder) /\ \A i \in DOMAIN stages : stages[i].ok

Sorted(evs) ==
  \A i \in 1..(Len(evs) - 1) : Compare(evs[i].Key, evs[i + 1].Key) <= 0

\* the input file parsed and getEvents has returned its list
EventsReturned == StageOK("getEvents")

(* C1: a run in which getEvents or generateCode fails (unreadable input,   *)
(* unparseable YAML, template read/parse/execute error, format.Source      *)
(* error) never attempts os.MkdirAll or os.WriteFile, leaves the           *)
(* destination file untouched and exits 1; MkdirAll and WriteFile are      *)
(* attempted only once getEvents and generateCode have both succeeded.     *)
C1_NoWriteBeforeSuccess ==
  /\ (Attempted("MkdirAll") \/ Attempted("WriteFile") \/ outFile # NoFile)
       => (StageOK("getEvents") /\ StageOK("generateCode"))
  /\ (StageFailed("getEvents") \/ StageFailed("generateCode"))
       => /\ ~Attempted("MkdirAll")
          /\ ~Attempted("WriteFile")
          /\ outFile = NoFile
          /\ pc = "exited" => exitCode = 1

\* C1's case: the Go template rendered, format.Source rejected the text, and
\* the run has exited with nothing written
C1_Witness ==
  /\ pc = "exited"
  /\ StageOK("getEvents")
  /\ StageFailed("generateCode")
  /\ err = "error generating code: format.Source"
  /\ rendered.template = "go.tmpl"
  /\ outFile = NoFile
  /\ exitCode = 1

\* the required flags as the command line gives them
FlagsMissingOrInvalid == argv.i = "" \/ argv.o = "" \/ argv.lang \notin {Go, TS}

(* C2, as stated: whenever -i, -o or -lang is empty or missing, or -lang   *)
(* is neither go nor ts, the run ends in parseFlags with the usage printed *)
(* and exit status 1, and no file operation is ever attempted.             *)
C2_Original ==
  FlagsMissingOrInvalid
    => /\ ioLog = << >>
       /\ outFile = NoFile
       /\ pc \in {"parseFlags", "exited"}
       /\ pc = "exited" => (exitCode = 1 /\ Printed(stderr, UsageMsg))

(* C2, amended: whenever -i, -o or -lang is empty or missing, or -lang is  *)
(* neither go nor ts, the run ends in parseFlags with the usage printed    *)
(* and no file operation is ever attempted; the exit status is 1 when      *)
(* flag.Parse accepted the command line, and is flag.Parse's own status    *)
(* when it did not: 2 for an undefined flag or a flag without its value,   *)
(* 0 for -h or -help.                                                      *)
C2_UsageBeforeIO ==
  FlagsMissingOrInvalid
    => /\ ioLog = << >>
       /\ outFile = NoFile
       /\ pc \in {"parseFlags", "exited"}
       /\ pc = "exited"
            => /\ Printed(stderr, UsageMsg)
               /\ argv.parse = "ok" => exitCode = 1
               /\ argv.parse = "error" => exitCode = 2
               /\ argv.parse = "help" => exitCode = 0

\* C2's case: a well-formed command line with -i and -o given and -lang py
\* has been rejected by parseFlags
C2_Witness ==
  /\ pc = "exited"
  /\ argv.parse = "ok"
  /\ argv.i # ""
  /\ argv.o # ""
  /\ argv.lang = "py"
  /\ exitCode = 1
  /\ stderr = << UsageMsg >>

(* C3: the list getEvents returns is sorted ascending by normalized key in *)
(* byte order, has as many entries as the input mapping has keys, and its  *)
(* entries are the mapping's entries, one for each key.                    *)
C3_SortedOnePerKey ==
  EventsReturned
    => /\ Sorted(events)
       /\ Len(events) = Cardinality(DOMAIN inputFile.section)
       /\ \E order \in Orders(DOMAIN inputFile.section) :
            \A i \in DOMAIN events :
              events[i] = NormalizeEvent(order[i], inputFile.section[order[i]])

\* C3's case: the loop visited two keys in descending order of their
\* normalized names and the returned list has them ascending
C3_Witness ==
  /\ EventsReturned
  /\ Len(visited) = 2
  /\ Compare(ToCamel(visited[1]), ToCamel(visited[2])) > 0
  /\ Compare(events[1].Key, events[2].Key) < 0

(* C4: the list getEvents returns does not depend on the order in which    *)
(* the map was visited: every other visiting order of the same mapping     *)
(* gives the identical list.                                               *)
C4_OrderIndependent ==
  EventsReturned
    => \A order \in Orders(DOMAIN inputFile.section) :
         EventList(inputFile.section, order) = events

(* C5: the normalized keys of the list getEvents returns are pairwise      *)
(* distinct.                                                               *)
C5_KeysDistinct ==
  EventsReturned
    => \A i, j \in DOMAIN events : i # j => events[i].Key # events[j].Key

(* C6, as stated: a run that has ended has exit status 0 and the           *)
(* confirmation on standard output if every stage succeeded, and exit      *)
(* status 1 and a message on standard error otherwise; the stages run in   *)
(* order, each at most once, and none after a failed one.                  *)
C6_Original ==
  /\ (exitCode # NotExited) <=> (pc = "exited")
  /\ \A i \in DOMAIN stages :
       /\ i <= Len(StageOrder)
       /\ stages[i].stage = StageOrder[i]
       /\ i < Len(stages) => stages[i].ok
  /\ pc = "exited"
       => IF AllStagesOK
            THEN exitCode = 0 /\ stdout = << SuccessMsg(config) >> /\ stderr = << >>
            ELSE exitCode = 1 /\ stderr # << >> /\ stdout = << >>

(* C6, amended: a run that has not ended can take its next step, and a run *)
(* that has ended has exactly one outcome: exit status 0 with the          *)
(* confirmation on standard output if and only if parseFlags, getEvents,   *)
(* generateCode, MkdirAll and WriteFile all succeeded; when flag.Parse     *)
(* itself ends the run, the usage on standard error with status 2 (an      *)
(* undefined flag, a flag without its value) or 0 (-h, -help) and no       *)
(* confirmation; otherwise exit status 1 with a message on standard error. *)
(* The stages run in order, each at most once, and none after a failed     *)
(* one.                                                                    *)
C6_TerminalOutcome ==
  /\ (exitCode # NotExited) <=> (pc = "exited")
  /\ pc # "exited" => ENABLED Next
  /\ \A i \in DOMAIN stages :
       /\ i <= Len(StageOrder)
       /\ stages[i].stage = StageOrder[i]
       /\ i < Len(stages) => stages[i].ok
  /\ pc = "exited"
       => /\ Printed(stdout, SuccessMsg(config)) <=> AllStagesOK
          /\ CASE AllStagesOK ->
                    exitCode = 0 /\ stdout = << SuccessMsg(config) >> /\ stderr = << >>
               [] ~AllStagesOK /\ argv.parse = "help" ->
                    exitCode = 0 /\ Printed(stderr, UsageMsg) /\ stdout = << >>
               [] ~AllStagesOK /\ argv.parse = "error" ->
                    exitCode = 2 /\ Printed(stderr, UsageMsg) /\ stdout = << >>
               [] OTHER ->
                    exitCode = 1 /\ stderr # << >> /\ stdout = << >>

\* C6's case: a run that got as far as the directory creation, failed there
\* and exited 1 with the error reported, the write never attempted
C6_Witness ==
  /\ pc = "exited"
  /\ StageFailed("mkdirAll")
  /\ ~Ran("writeFile")
  /\ exitCode = 1
  /\ stderr = << [kind |-> "Error", cause |-> "error creating directory"] >>
  /\ stdout = << >>

\* the input parsed as YAML and holds no components.x-sse-events
SectionAbsent == inputFile.readable /\ inputFile.yamlOK /\ ~inputFile.hasSection

(* C7: when the input parses and has no components.x-sse-events section,   *)
(* getEvents succeeds with an empty list, the run goes on to generateCode  *)
(* with zero events, and unless the rendering, the directory creation or   *)
(* the write itself fails it ends with exit status 0 and a written file    *)
(* that holds a type with no members.                                      *)
C7_AbsentSectionSucceeds ==
  SectionAbsent
    => /\ ~StageFailed("getEvents")
       /\ Ran("getEvents") => (events = << >> /\ pc # "getEvents")
       /\ Ran("generateCode") => rendered.Events = << >>
       /\ (pc = "exited" /\ Ran("getEvents") /\ ~StageFailed("generateCode")
             /\ ~StageFailed("mkdirAll") /\ ~StageFailed("writeFile"))
            => /\ exitCode = 0
               /\ outFile.state = "written"
               /\ outFile.content.template # ""
               /\ outFile.content.Events = << >>

\* C7's case: a run on a file without the section has exited 0 with the
\* rendered, member-less type written
C7_Witness ==
  /\ SectionAbsent
  /\ pc = "exited"
  /\ exitCode = 0
  /\ outFile.state = "written"
  /\ outFile.content.TypeName = "SSEEvent"
  /\ outFile.content.Events = << >>

(* C8: on a successful run the file holds exactly the bytes generateCode   *)
(* returned; with -lang ts they are the rendered text as it is and         *)
(* format.Source was never called; with -lang go they are format.Source's  *)
(* result for the rendered text, format.Source having been called once;    *)
(* format.Source is only ever called with -lang go.                        *)
C8_WrittenBytes ==
  /\ formatCalls > 0 => config.Lang = Go
  /\ StageOK("writeFile")
       => /\ outFile = [state |-> "written", content |-> generated]
          /\ config.Lang = TS
               => /\ generated = rendered
                  /\ generated.layout = "as rendered"
                  /\ generated.template = "ts.tmpl"
                  /\ formatCalls = 0
          /\ config.Lang = Go
               => /\ generated = [rendered EXCEPT !.layout = "gofmt"]
                  /\ generated.template = "go.tmpl"
                  /\ formatCalls = 1

\* C8's case: a ts run over the example mapping has exited 0 with the
\* unformatted text written
C8_Witness ==
  /\ pc = "exited"
  /\ exitCode = 0
  /\ config.Lang = TS
  /\ inputFile.section = ExampleMapping
  /\ outFile.state = "written"
  /\ outFile.content.layout = "as rendered"
  /\ Len(outFile.content.Events) = 2

(* C9, as stated: for every string, the key normalization applied to an    *)
(* already key-normalized value returns it unchanged, and the wireName     *)
(* normalization applied to an already wireName-normalized value returns   *)
(* it unchanged.                                                           *)
C9_Original ==
  /\ "key2" \in norm.done => norm.key2 = norm.key
  /\ "wire2" \in norm.done => norm.wire2 = norm.wire

\* a string of words of two or more lowercase letters, joined by single
\* separators (_ - . or space)
LowercaseWords(s) ==
  /\ Len(s) >= 2
  /\ \A i \in DOMAIN s :
       \/ IsLow(s[i])
       \/ /\ IsSeparator(s[i])
          /\ i >= 3
          /\ i + 2 <= Len(s)
          /\ IsLow(s[i - 1]) /\ IsLow(s[i - 2])
          /\ IsLow(s[i + 1]) /\ IsLow(s[i + 2])

(* C9, amended: for every string made of words of two or more lowercase    *)
(* letters joined by single separators (_ - . or space), such as           *)
(* message_start, the key normalization applied to the key-normalized      *)
(* value returns it unchanged, and the wireName normalization applied to   *)
(* the wireName-normalized value returns it unchanged.                     *)
C9_IdempotentOnWords ==
  LowercaseWords(norm.in)
    => /\ "key2" \in norm.done => norm.key2 = norm.key
       /\ "wire2" \in norm.done => norm.wire2 = norm.wire

\* C9's case: a two-word string has been normalized twice both ways, the
\* first normalization having changed it
C9_Witness ==
  /\ LowercaseWords(norm.in)
  /\ \E i \in DOMAIN norm.in : IsSeparator(norm.in[i])
  /\ norm.done = {"key", "wire", "key2", "wire2"}
  /\ norm.key # norm.in
  /\ norm.wire # norm.in
  /\ norm.key # norm.wire
  /\ norm.key2 = norm.key
  /\ norm.wire2 = norm.wire

MessageEnd == Bytes(<< "M", "e", "s", "s", "a", "g", "e", "E", "n", "d" >>)
messageEnd == Bytes(<< "m", "e", "s", "s", "a", "g", "e", "E", "n", "d" >>)
MessageStart == Bytes(<< "M", "e", "s", "s", "a", "g", "e", "S", "t", "a", "r", "t" >>)
messageStart == Bytes(<< "m", "e", "s", "s", "a", "g", "e", "S", "t", "a", "r", "t" >>)

(* C10: for every entry (k, v) of the input mapping the returned list has  *)
(* an entry whose key is the capitalized word-boundary form of k (a key    *)
(* field of v is overwritten), whose wireName is the lowercase-leading     *)
(* word-boundary form of v.event, and whose description and deprecated are *)
(* those of v; the mapping {message_start: {event: message_start,          *)
(* description: start}, message_end: {event: message_end, deprecated:      *)
(* true}} yields [MessageEnd/messageEnd/deprecated,                        *)
(* MessageStart/messageStart/start], in that order.                        *)
C10_EntriesNormalized ==
  EventsReturned
    => /\ \A k \in DOMAIN inputFile.section :
            \E i \in DOMAIN events :
              /\ events[i].Key = ToCamel(k)
              /\ events[i].Event = ToLowerCamel(inputFile.section[k].Event)
              /\ events[i].Description = inputFile.section[k].Description
              /\ events[i].Deprecated = inputFile.section[k].Deprecated
       /\ inputFile.section = ExampleMapping
            => events = << Event(MessageEnd, messageEnd, "", TRUE),
                           Event(MessageStart, messageStart, "start", FALSE) >>

\* C10's case: the example mapping, visited message_start first, has been
\* turned into the list that starts with MessageEnd
C10_Witness ==
  /\ EventsReturned
  /\ inputFile.section = ExampleMapping
  /\ visited = << message_start, message_end >>
  /\ events[1].Key = MessageEnd
  /\ events[2].Event = messageStart

====
